---- MODULE Spec2Model ----
(***************************************************************************)
(* A model of the response-parsing and attempt-retry core of hal9000:      *)
(*   scripts/apply_changes.py  parse_model_response, apply_changes,        *)
(*                             generate_diff                               *)
(*   scripts/run_hal9000.py    main (the retry loop), run_tests            *)
(*   scripts/execute_plan.py   main (the same loop)                        *)
(*                                                                         *)
(* Text is modelled one level above characters: a response is a sequence   *)
(* of sections, each the unit one of the parser's regular expressions      *)
(* matches.  File contents are sequences of characters.  A path is its     *)
(* list of segments plus whether it is absolute; a location is the list of *)
(* segments from the filesystem root.  The output of the test command is   *)
(* a sequence of chunks of text.                                           *)
(***************************************************************************)
EXTENDS Integers, Sequences, FiniteSets, TLC

(***************************************************************************)
(* Bounds of the model.                                                    *)
(***************************************************************************)
MaxRetries == 3
MaxSections == 2
MaxRateLimitRetries == 5

(***************************************************************************)
(* Paths and the filesystem.                                               *)
(***************************************************************************)
NL == "\n"

MkPath(abs, segs) == [abs |-> abs, segs |-> segs]

p_a == MkPath(FALSE, <<"a.txt">>)
p_new == MkPath(FALSE, <<"sub", "new.txt">>)
p_pkg == MkPath(FALSE, <<"pkg">>)
p_up == MkPath(FALSE, <<"..", "x">>)
p_abs == MkPath(TRUE, <<"x">>)

\* args.repo_path, as a location
repo_root == <<"repo">>

\* pathlib's `repo_root / path`: an absolute right operand replaces the left
JoinPath(root, path) == IF path.abs THEN path.segs ELSE root \o path.segs

RECURSIVE Normalize(_, _)
\* what the operating system makes of the ".." segments when the path is opened
Normalize(acc, segs) ==
    IF segs = <<>> THEN acc
    ELSE IF Head(segs) = ".."
         THEN Normalize(IF acc = <<>> THEN acc ELSE SubSeq(acc, 1, Len(acc) - 1),
                        Tail(segs))
         ELSE Normalize(Append(acc, Head(segs)), Tail(segs))

\* file_path = repo_root / path, as the location the filesystem calls act on
FilePath(path) == Normalize(<<>>, JoinPath(repo_root, path))

IsPrefix(s, t) == Len(s) <= Len(t) /\ SubSeq(t, 1, Len(s)) = s

\* a location strictly below the workspace root
InsideRoot(loc) == IsPrefix(repo_root, loc) /\ Len(loc) > Len(repo_root)

Absent == [kind |-> "absent", data |-> <<>>]
Dir == [kind |-> "dir", data |-> <<>>]
File(data) == [kind |-> "file", data |-> data]

Locs ==
    { <<"repo">>, <<"repo", "a.txt">>, <<"repo", "pkg">>, <<"repo", "pkg", "m.py">>,
      <<"repo", "sub">>, <<"repo", "sub", "new.txt">>, <<"x">> }

\* the checkout the run starts from: every file of it is tracked by git
Baseline ==
    [l \in Locs |->
        CASE l = <<"repo">> -> Dir
          [] l = <<"repo", "a.txt">> -> File(<<"o", NL>>)
          [] l = <<"repo", "pkg">> -> Dir
          [] l = <<"repo", "pkg", "m.py">> -> File(<<"m", NL>>)
          [] OTHER -> Absent]

Tracked == { l \in Locs : Baseline[l].kind = "file" }

\* the part of a filesystem that is the workspace's file tree
Tree(f) == [l \in { m \in Locs : IsPrefix(repo_root, m) } |-> f[l]]

\* Path.exists()
Exists(f, loc) == f[loc].kind # "absent"

ProperAncestors(loc) == { SubSeq(loc, 1, n) : n \in 1..(Len(loc) - 1) }

(***************************************************************************)
(* apply_changes (scripts/apply_changes.py).                               *)
(***************************************************************************)
\* a change dict; keys are the keys it has (one taken verbatim from a JSON
\* block may lack some)
Entry(keys, path, action, content) ==
    [keys |-> keys, path |-> path, action |-> action, content |-> content]

ChangeKeys == {"path", "action", "content"}

Change(path, action, content) == Entry(ChangeKeys, path, action, content)

\* change.get("action", "modify")
ActionOf(change) == IF "action" \in change.keys THEN change.action ELSE "modify"

\* change.get("content", "")
ContentOf(change) == IF "content" \in change.keys THEN change.content ELSE <<>>

Line(outcome, path) == [outcome |-> outcome, path |-> path]

\* an exception leaves the function: what was written so far stays written
Raised(f, touched) == [raised |-> TRUE, fs |-> f, line |-> Line("", p_a), touched |-> touched]

Done(f, line, touched) == [raised |-> FALSE, fs |-> f, line |-> line, touched |-> touched]

\* file_path.parent.mkdir(parents=True, exist_ok=True)
MkdirParents(f, loc) ==
    LET anc == ProperAncestors(loc)
        missing == { a \in anc : f[a].kind = "absent" }
    IN  IF \E a \in anc : f[a].kind = "file"
        THEN [raised |-> TRUE, fs |-> f, made |-> {}]
        ELSE [raised |-> FALSE,
              fs |-> [l \in Locs |-> IF l \in missing THEN Dir ELSE f[l]],
              made |-> missing]

\* file_path.write_text(content + "\n")
WriteText(content) == File(content \o <<NL>>)

\* the `if action == "delete"` branch
ApplyDelete(f, path) ==
    LET file_path == FilePath(path)
    IN  IF Exists(f, file_path)
        THEN IF f[file_path].kind = "dir"
             THEN Raised(f, {})
             ELSE Done([f EXCEPT ![file_path] = Absent], Line("Deleted", path), {file_path})
        ELSE Done(f, Line("SkippedMissing", path), {})

\* a write that looks whether the file exists only after it has written it
ApplyWriteExistedAfter(f, path, content) ==
    LET file_path == FilePath(path)
        md == MkdirParents(f, file_path)
    IN  IF md.raised
        THEN Raised(f, {})
        ELSE IF md.fs[file_path].kind = "dir"
             THEN Raised(md.fs, md.made)
             ELSE Done([md.fs EXCEPT ![file_path] = WriteText(content)],
                       Line("Modified", path), md.made \cup {file_path})

\* the `elif action in ("create", "modify")` branch
ApplyWrite(f, path, content) ==
    LET file_path == FilePath(path)
        md == MkdirParents(f, file_path)
        existed == Exists(md.fs, file_path)
    IN  IF md.raised
        THEN Raised(f, {})
        ELSE IF md.fs[file_path].kind = "dir"
             THEN Raised(md.fs, md.made)
             ELSE Done([md.fs EXCEPT ![file_path] = WriteText(content)],
                       Line(IF existed THEN "Modified" ELSE "Created", path),
                       md.made \cup {file_path})

\* an iteration that writes the content for any action that is not delete
ApplyChangeDefaultWrite(f, change) ==
    IF "path" \notin change.keys
    THEN Raised(f, {})
    ELSE IF ActionOf(change) = "delete"
         THEN ApplyDelete(f, change.path)
         ELSE ApplyWrite(f, change.path, ContentOf(change))

\* one iteration of the loop over changes
ApplyChange(f, change) ==
    IF "path" \notin change.keys
    THEN Raised(f, {})
    ELSE IF ActionOf(change) = "delete"
         THEN ApplyDelete(f, change.path)
         ELSE IF ActionOf(change) \in {"create", "modify"}
              THEN ApplyWrite(f, change.path, ContentOf(change))
              ELSE Done(f, Line("UnknownAction", change.path), {})

RECURSIVE ApplyFrom(_, _, _, _)
ApplyFrom(f, changes, lines, touched) ==
    IF changes = <<>>
    THEN [raised |-> FALSE, fs |-> f, summary |-> lines, touched |-> touched]
    ELSE LET r == ApplyChange(f, Head(changes))
         IN  IF r.raised
             THEN [raised |-> TRUE, fs |-> r.fs, summary |-> lines,
                   touched |-> touched \cup r.touched]
             ELSE ApplyFrom(r.fs, Tail(changes), Append(lines, r.line),
                            touched \cup r.touched)

\* an apply that undoes its writes when an edit raises
apply_changes_rollback(changes, f) ==
    LET r == ApplyFrom(f, changes, <<>>, {})
    IN  IF r.raised THEN [r EXCEPT !.fs = f] ELSE r

apply_changes(changes, f) == ApplyFrom(f, changes, <<>>, {})

(***************************************************************************)
(* generate_diff (scripts/apply_changes.py): a dict from path to the       *)
(* entry of the last change of that path that produced one.                *)
(***************************************************************************)
DiffEntry(action, old, new) == [action |-> action, old |-> old, new |-> new]

\* diffs[path] = entry
Put(d, path, entry) == [p \in DOMAIN d \cup {path} |-> IF p = path THEN entry ELSE d[p]]

DiffRaised(d) == [raised |-> TRUE, diffs |-> d]

DiffDone(d) == [raised |-> FALSE, diffs |-> d]

\* one iteration of the loop over changes; read_text raises on a directory
DiffChange(d, f, change) ==
    IF "path" \notin change.keys
    THEN DiffRaised(d)
    ELSE LET path == change.path
             action == ActionOf(change)
             content == ContentOf(change)
             file_path == FilePath(path)
         IN  CASE action = "delete" ->
                    IF Exists(f, file_path)
                    THEN IF f[file_path].kind = "dir"
                         THEN DiffRaised(d)
                         ELSE DiffDone(Put(d, path,
                                           DiffEntry("delete", f[file_path].data, <<>>)))
                    ELSE DiffDone(d)
               [] action = "create" ->
                    DiffDone(Put(d, path, DiffEntry("create", <<>>, content)))
               [] action = "modify" ->
                    IF Exists(f, file_path) /\ f[file_path].kind = "dir"
                    THEN DiffRaised(d)
                    ELSE DiffDone(Put(d, path,
                                      DiffEntry("modify",
                                                IF Exists(f, file_path)
                                                THEN f[file_path].data ELSE <<>>,
                                                content)))
               [] OTHER -> DiffDone(d)

RECURSIVE DiffFrom(_, _, _)
DiffFrom(d, f, changes) ==
    IF changes = <<>>
    THEN DiffDone(d)
    ELSE LET r == DiffChange(d, f, Head(changes))
         IN  IF r.raised THEN r ELSE DiffFrom(r.diffs, f, Tail(changes))

generate_diff(changes, f) == DiffFrom(<<>>, f, changes)

(***************************************************************************)
(* Response text and parse_model_response (scripts/apply_changes.py).      *)
(*                                                                         *)
(* A section is the stretch of text one of the parser's patterns looks at: *)
(*   "json"     ```json NEWLINE obj NEWLINE ```                            *)
(*   "tagged"   ### File: `path` [### Action: word] ```lang NEWLINE body```*)
(*   "loose"    File: path [Action: word] ``` NEWLINE body```              *)
(*   "delete"   ### File: path, ### Action: word (a spelling of delete),   *)
(*              no code block                                              *)
(*   "explanation"  ## Explanation NEWLINE note                            *)
(*   "prose"    anything else                                              *)
(* action is the word of the Action line as written, NoAction without one. *)
(***************************************************************************)
NoAction == "-"

\* what json.loads makes of a ```json block: valid is FALSE when it raises
\* JSONDecodeError; keys are the keys of the decoded object
JsonValue(valid, keys, explanation, changes) ==
    [valid |-> valid, keys |-> keys, explanation |-> explanation, changes |-> changes]

NoObj == JsonValue(FALSE, {}, "", <<>>)

Obj(explanation, changes) == JsonValue(TRUE, {"explanation", "changes"}, explanation, changes)

\* the dict parse_model_response returns
Result(keys, explanation, changes) ==
    [keys |-> keys, explanation |-> explanation, changes |-> changes]

Section(kind, path, action, body, note, obj) ==
    [kind |-> kind, path |-> path, action |-> action, body |-> body, note |-> note,
     obj |-> obj]

Tagged(path, action, body) == Section("tagged", path, action, body, "", NoObj)
Loose(path, action, body) == Section("loose", path, action, body, "", NoObj)
DeleteOnly(path, action) == Section("delete", path, action, <<>>, "", NoObj)
Json(obj) == Section("json", p_a, NoAction, <<>>, "", obj)
Explanation(note) == Section("explanation", p_a, NoAction, <<>>, note, NoObj)
Prose == Section("prose", p_a, NoAction, <<>>, "", NoObj)

\* str.lower() on the action words of the model
Lower(w) ==
    CASE w = "Create" -> "create"
      [] w = "CREATE" -> "create"
      [] w = "Modify" -> "modify"
      [] w = "Delete" -> "delete"
      [] w = "DELETE" -> "delete"
      [] w = "Rename" -> "rename"
      [] OTHER -> w

\* `if content.endswith("\n"): content = content[:-1]`
StripNewline(content) ==
    IF content # <<>> /\ content[Len(content)] = NL
    THEN SubSeq(content, 1, Len(content) - 1)
    ELSE content

RECURSIVE SkipBlank(_)
\* the greedy `\s*\n` after the fence's language word also takes the blank
\* lines the body starts with
SkipBlank(body) ==
    IF body # <<>> /\ Head(body) = NL THEN SkipBlank(Tail(body)) ELSE body

\* group(3) of file_pattern and alt_pattern, then the newline strip
BlockContent(body) == StripNewline(SkipBlank(body))

\* the dict with the action word as it is written
SectionChangeVerbatim(s) ==
    Change(s.path, IF s.action = NoAction THEN "modify" ELSE s.action, BlockContent(s.body))

\* the dict appended for one match of file_pattern or alt_pattern
SectionChange(s) ==
    Change(s.path, Lower(IF s.action = NoAction THEN "modify" ELSE s.action),
           BlockContent(s.body))

\* the matches taken last to first
MapChangesReversed(secs) == [i \in 1..Len(secs) |-> SectionChange(secs[Len(secs) + 1 - i])]

MapChanges(secs) == [i \in 1..Len(secs) |-> SectionChange(secs[i])]

\* file_pattern.finditer(response_text)
FileMatches(text) == SelectSeq(text, LAMBDA s : s.kind = "tagged")

\* alt_pattern.finditer(response_text)
AltMatches(text) == SelectSeq(text, LAMBDA s : s.kind = "loose")

\* delete_pattern (IGNORECASE) needs the hashes on both lines and no code
\* block: it matches a delete-only heading, and a tagged section whose Action
\* word is a spelling of delete
DeleteMatches(text) ==
    SelectSeq(text, LAMBDA s :
        \/ s.kind = "delete"
        \/ s.kind = "tagged" /\ s.action # NoAction /\ Lower(s.action) = "delete")

Paths(changes) == { changes[i].path : i \in 1..Len(changes) }

RECURSIVE AddDeletesAll(_, _)
\* a loop that appends a delete for every match, whatever the paths it has
AddDeletesAll(changes, matches) ==
    IF matches = <<>> THEN changes
    ELSE AddDeletesAll(Append(changes, Change(Head(matches).path, "delete", <<>>)),
                       Tail(matches))

RECURSIVE AddDeletes(_, _)
\* the loop over delete_pattern's matches
AddDeletes(changes, matches) ==
    IF matches = <<>> THEN changes
    ELSE LET path == Head(matches).path
         IN  IF path \notin Paths(changes)
             THEN AddDeletes(Append(changes, Change(path, "delete", <<>>)), Tail(matches))
             ELSE AddDeletes(changes, Tail(matches))

\* re.search(r"##\s*Explanation...") and .strip()
ExplanationOf(text) ==
    LET e == SelectSeq(text, LAMBDA s : s.kind = "explanation")
    IN  IF e = <<>> THEN "" ELSE Head(e).note

\* the markdown half of parse_model_response
ParseMarkdown(text) ==
    LET tagged == MapChanges(FileMatches(text))
        content == IF tagged = <<>> THEN MapChanges(AltMatches(text)) ELSE tagged
    IN  Result({"explanation", "changes"}, ExplanationOf(text),
               AddDeletes(content, DeleteMatches(text)))

\* re.search takes the first ```json block of the text
JsonMatch(text) == SelectSeq(text, LAMBDA s : s.kind = "json")

\* a parser that goes on to the markdown formats when the JSON block has an
\* empty changes list
parse_model_response_nonempty(text) ==
    LET js == JsonMatch(text)
    IN  IF js # <<>> /\ Head(js).obj.valid /\ "changes" \in Head(js).obj.keys
           /\ Head(js).obj.changes # <<>>
        THEN Result(Head(js).obj.keys, Head(js).obj.explanation, Head(js).obj.changes)
        ELSE ParseMarkdown(text)

parse_model_response(text) ==
    LET js == JsonMatch(text)
    IN  IF js # <<>> /\ Head(js).obj.valid /\ "changes" \in Head(js).obj.keys
        THEN Result(Head(js).obj.keys, Head(js).obj.explanation, Head(js).obj.changes)
        ELSE ParseMarkdown(text)

(***************************************************************************)
(* The retry loop: main of scripts/run_hal9000.py (and, line for line the  *)
(* same, of scripts/execute_plan.py).                                      *)
(***************************************************************************)
VARIABLES
    max_retries,       \* args.max_retries
    pc,                \* where main is
    attempt,           \* the loop variable
    previous_attempt,  \* the feedback dict, or None
    success,
    user_message,      \* the prompt of the current attempt
    response_text,
    parsed,
    changes_summary,
    test_success,
    test_output,
    fs,                \* the filesystem: the workspace and what lies outside it
    saved,             \* the records save_output has written, in order
    exit_status,       \* "running", "exit0", "exit1" or "traceback"
    \* history, for stating properties only
    log,               \* one record per attempt started
    gen_calls,         \* calls of call_llm
    resets,            \* invocations of git checkout
    reset_failed,      \* git checkout has failed
    llm_failed,        \* call_llm has raised
    touched,           \* the locations apply_changes has written or removed
    diffs,             \* what generate_diff returned for the parsed changes
    first_apply,       \* what an earlier apply_changes of the same changes did
    llm                \* one invocation of call_llm: its loop variable and what it did

vars ==
    <<max_retries, pc, attempt, previous_attempt, success, user_message, response_text,
      parsed, changes_summary, test_success, test_output, fs, saved, exit_status, log,
      gen_calls, resets, reset_failed, llm_failed, touched, diffs, first_apply,
      llm>>

\* the output of one run of the test command; run tells the runs apart
Output(text, run) == [text |-> text, run |-> run]
NoOutput == Output(<<>>, 0)

Summary(kind, lines, text) == [kind |-> kind, lines |-> lines, text |-> text]
NoSummary == Summary("none", <<>>, <<>>)

None == [set |-> FALSE, test_output |-> NoOutput, changes_summary |-> NoSummary]
Feedback(out, summary) == [set |-> TRUE, test_output |-> out, changes_summary |-> summary]

\* call_llm: max is max_rate_limit_retries, attempt its loop variable,
\* requests the calls of litellm.completion made, waits the sleeps made
Call(max, n, requests, waits, status, response, error) ==
    [max |-> max, attempt |-> n, requests |-> requests, waits |-> waits,
     status |-> status, response |-> response, error |-> error]

NoCall == Call(0, 0, 0, <<>>, "none", <<>>, <<>>)

\* str.lower() on the words of the error messages of the model
LowerWord(w) ==
    CASE w = "Too Many Requests" -> "too many requests"
      [] w = "Error" -> "error"
      [] OTHER -> w

\* "rate_limit" in error_str or "429" in error_str or "too many requests" in error_str
IsRateLimit(e) ==
    \E i \in 1..Len(e) : LowerWord(e[i]) \in {"rate_limit", "429", "too many requests"}

\* a backoff that grows by 30 seconds a time
WaitTimeLinear(n) == (n + 1) * 30

\* wait_time = (2 ** attempt) * 30
WaitTime(n) == (2 ^ n) * 30

\* the exception raised after the loop
RateLimitExceeded == <<"Rate limit exceeded">>

NoDiffs == DiffDone(<<>>)

\* done is FALSE until apply_changes has run once
Applied(done, f, summary) == [done |-> done, fs |-> f, summary |-> summary]

NoApply == Applied(FALSE, Baseline, <<>>)

NoParse == Result({"explanation", "changes"}, "", <<>>)

\* parsed.get("explanation", "")
ExplanationGet(p) == IF "explanation" \in p.keys THEN p.explanation ELSE ""

\* a loop that never passes previous_attempt on
build_user_message_no_feedback(prev) ==
    [request |-> "issue", repo_contents |-> "bundle", feedback |-> None]

\* build_user_message: the parts of the prompt that do not change between
\* attempts (issue, comments, bundled repository) and the feedback block
build_user_message(prev) ==
    [request |-> "issue", repo_contents |-> "bundle",
     feedback |-> IF prev.set THEN prev ELSE None]

\* a no-changes branch that leaves the feedback unset
NoChangesFeedbackUnset(text) == None

\* the dict of lines 243-246: response_text[:1000] stands for the changes
NoChangesFeedback(text) ==
    Feedback(Output(<<"Model did not provide any file changes">>, 0),
             Summary("response_head", <<>>, text))

\* the dict of lines 278-281
TestFeedback(out, summary) == Feedback(out, Summary("applied", summary, <<>>))

\* what the test subprocess did: how it ended and what it had written to its
\* two streams by then
Proc(res, stdout, stderr) == [res |-> res, stdout |-> stdout, stderr |-> stderr]

NoProc == Proc("none", <<>>, <<>>)

RECURSIVE LStrip(_)
LStrip(t) == IF t # <<>> /\ Head(t) = NL THEN LStrip(Tail(t)) ELSE t

RECURSIVE RStrip(_)
RStrip(t) == IF t # <<>> /\ t[Len(t)] = NL THEN RStrip(SubSeq(t, 1, Len(t) - 1)) ELSE t

\* str.strip() on a text of chunks
Strip(t) == RStrip(LStrip(t))

\* run_tests: (success, output) for what the subprocess did
run_tests(proc, run) ==
    [success |-> proc.res = "exit0",
     output |-> CASE proc.res = "timeout" ->
                         Output(<<"Test command timed out after 5 minutes">>, run)
                  [] proc.res = "error" -> Output(<<"Error running tests">>, run)
                  [] OTHER -> Output(Strip(proc.stdout \o <<NL>> \o proc.stderr), run)]

\* `git checkout .` in the workspace: the tracked files are written back from
\* the index; files git does not track, and directories, are left alone
GitCheckout(f) == [l \in Locs |-> IF l \in Tracked THEN Baseline[l] ELSE f[l]]

\* subprocess.run(["git", "checkout", "."], ...) without check=True: a nonzero
\* exit status is not looked at; only failing to start git raises
RevertChanges(f, git) ==
    [raised |-> git = "cannot_start",
     fs |-> IF git = "ok" THEN GitCheckout(f) ELSE f]

GitOutcomes == {"ok", "nonzero", "cannot_start"}
TestOutcomes ==
    {Proc("exit0", <<"ok", NL>>, <<>>), Proc("exit1", <<"F", NL>>, <<"E", NL>>),
     Proc("timeout", <<"F", NL>>, <<>>), Proc("error", <<>>, <<>>)}

Record(ok, n, changes, explanation, out) ==
    [success |-> ok, attempt |-> n, changes |-> changes, explanation |-> explanation,
     test_output |-> out]

\* a record numbered from the 0-based index
SuccessRecordZeroBased(n, p, out) == Record(TRUE, n - 1, p.changes, ExplanationGet(p), out)

\* the record of lines 264-270
SuccessRecord(n, p, out) == Record(TRUE, n, p.changes, ExplanationGet(p), out)

\* the record of lines 297-301
\* a failure record that never looks at the last feedback
FailureRecordUnknown(n, prev) == Record(FALSE, n, <<>>, "", Output(<<"Unknown error">>, 0))

FailureRecord(n, prev) ==
    Record(FALSE, n, <<>>, "", IF prev.set THEN prev.test_output ELSE Output(<<"Unknown error">>, 0))

\* the spec's AttemptRecord, with the prompt and the filesystem the attempt
\* started from
AttemptRecord(i, prompt, text, f) ==
    [index |-> i, prompt |-> prompt, generatedText |-> text, parsedDone |-> FALSE,
     parseResult |-> NoParse, applied |-> FALSE, applySummary |-> <<>>,
     validated |-> FALSE, proc |-> NoProc, passed |-> FALSE,
     validationOutput |-> NoOutput,
     fsAtStart |-> f]

(***************************************************************************)
(* The responses the text-generation call may return in the retry loop.    *)
(***************************************************************************)
R_none == <<Prose>>
R_new == <<Explanation("why"), Tagged(p_new, "create", <<"h", NL>>)>>
R_mod == <<Tagged(p_a, NoAction, <<"n", NL>>)>>
R_dir == <<Tagged(p_a, "Modify", <<"n", NL>>), Tagged(p_pkg, "modify", <<"h", NL>>)>>
\* an edit that changes nothing: its action is none apply_changes knows
R_noop == <<Tagged(p_a, "Rename", <<"n", NL>>)>>

Responses == {R_none, R_new, R_mod, R_dir, R_noop}

NoMessage == [request |-> "", repo_contents |-> "", feedback |-> None]

Init ==
    /\ max_retries \in 1..MaxRetries
    /\ pc = "generate"
    /\ attempt = 1
    /\ previous_attempt = None
    /\ success = FALSE
    /\ user_message = NoMessage
    /\ response_text = <<>>
    /\ parsed = NoParse
    /\ changes_summary = <<>>
    /\ test_success = FALSE
    /\ test_output = NoOutput
    /\ fs = Baseline
    /\ saved = <<>>
    /\ exit_status = "running"
    /\ log = <<>>
    /\ gen_calls = 0
    /\ resets = 0
    /\ reset_failed = FALSE
    /\ llm_failed = FALSE
    /\ touched = {}
    /\ diffs = NoDiffs
    /\ first_apply = NoApply
    /\ llm = NoCall

\* a revert after every failed attempt, the last included
ShouldRevertAlways(i, k) == TRUE

\* `if attempt < args.max_retries` of line 284
ShouldRevert(i, k) == i < k

\* the for statement: the next iteration, or the statement after the loop
LoopNext ==
    IF attempt < max_retries
    THEN attempt' = attempt + 1 /\ pc' = "generate"
    ELSE attempt' = attempt /\ pc' = "after_loop"

\* an uncaught exception ends the process with a traceback
Crash == pc' = "exited" /\ exit_status' = "traceback"

\* lines 218-235, call_llm returning a response
CallLLM(text) ==
    /\ pc = "generate"
    /\ user_message' = build_user_message(previous_attempt)
    /\ response_text' = text
    /\ gen_calls' = gen_calls + 1
    /\ log' = Append(log, AttemptRecord(attempt, user_message', text, fs))
    /\ pc' = "parse"
    /\ UNCHANGED <<diffs, first_apply, llm>>
    /\ UNCHANGED <<max_retries, attempt, previous_attempt, success, parsed, changes_summary,
                   test_success, test_output, fs, saved, exit_status, resets, reset_failed,
                   llm_failed, touched>>

\* call_llm's error caught and counted as a failed attempt
CallLLMRaisesCaught ==
    /\ pc = "generate"
    /\ user_message' = build_user_message(previous_attempt)
    /\ gen_calls' = gen_calls + 1
    /\ log' = Append(log, AttemptRecord(attempt, user_message', <<>>, fs))
    /\ llm_failed' = TRUE
    /\ LoopNext
    /\ UNCHANGED <<diffs, first_apply, llm>>
    /\ UNCHANGED <<max_retries, previous_attempt, success, response_text, parsed,
                   changes_summary, test_success, test_output, fs, saved, exit_status,
                   resets, reset_failed, touched>>

\* lines 218-235, call_llm raising (a provider error, or its rate-limit
\* retries used up)
CallLLMRaises ==
    /\ pc = "generate"
    /\ user_message' = build_user_message(previous_attempt)
    /\ gen_calls' = gen_calls + 1
    /\ log' = Append(log, AttemptRecord(attempt, user_message', <<>>, fs))
    /\ llm_failed' = TRUE
    /\ Crash
    /\ UNCHANGED <<diffs, first_apply, llm>>
    /\ UNCHANGED <<max_retries, attempt, previous_attempt, success, response_text, parsed,
                   changes_summary, test_success, test_output, fs, saved, resets,
                   reset_failed, touched>>

\* lines 239-247
ParseResponse ==
    /\ pc = "parse"
    /\ LET p == parse_model_response(response_text)
       IN  /\ parsed' = p
           /\ IF p.changes = <<>>
              THEN /\ previous_attempt' = NoChangesFeedback(response_text)
                   /\ log' = [log EXCEPT ![attempt].parsedDone = TRUE,
                                         ![attempt].parseResult = p,
                                         ![attempt].validationOutput =
                                             previous_attempt'.test_output]
                   /\ LoopNext
              ELSE /\ log' = [log EXCEPT ![attempt].parsedDone = TRUE,
                                         ![attempt].parseResult = p]
                   /\ pc' = "apply"
                   /\ UNCHANGED <<previous_attempt, attempt>>
    /\ UNCHANGED <<diffs, first_apply, llm>>
    /\ UNCHANGED <<max_retries, success, user_message, response_text, changes_summary,
                   test_success, test_output, fs, saved, exit_status, gen_calls, resets,
                   reset_failed, llm_failed, touched>>

\* a loop that goes on to the tests without applying the changes
ApplyChangesSkipped ==
    /\ pc = "apply"
    /\ pc' = "test"
    /\ UNCHANGED <<diffs, first_apply, llm>>
    /\ UNCHANGED <<max_retries, attempt, previous_attempt, success, user_message,
                   response_text, parsed, changes_summary, test_success, test_output, fs,
                   saved, exit_status, log, gen_calls, resets, reset_failed, llm_failed,
                   touched>>

\* line 251
ApplyChanges ==
    /\ pc = "apply"
    /\ LET r == apply_changes(parsed.changes, fs)
       IN  /\ fs' = r.fs
           /\ touched' = touched \cup r.touched
           /\ IF r.raised
              THEN /\ Crash
                   /\ log' = [log EXCEPT ![attempt].applied = TRUE]
                   /\ UNCHANGED changes_summary
              ELSE /\ changes_summary' = r.summary
                   /\ log' = [log EXCEPT ![attempt].applied = TRUE,
                                         ![attempt].applySummary = r.summary]
                   /\ pc' = "test"
                   /\ UNCHANGED exit_status
    /\ UNCHANGED <<diffs, first_apply, llm>>
    /\ UNCHANGED <<max_retries, attempt, previous_attempt, success, user_message,
                   response_text, parsed, test_success, test_output, saved, gen_calls,
                   resets, reset_failed, llm_failed>>

\* line 256
RunTests(proc) ==
    /\ pc = "test"
    /\ LET t == run_tests(proc, attempt)
       IN  /\ test_success' = t.success
           /\ test_output' = t.output
           /\ log' = [log EXCEPT ![attempt].validated = TRUE,
                                 ![attempt].proc = proc,
                                 ![attempt].passed = t.success,
                                 ![attempt].validationOutput = t.output]
    /\ pc' = "decide"
    /\ UNCHANGED <<diffs, first_apply, llm>>
    /\ UNCHANGED <<max_retries, attempt, previous_attempt, success, user_message,
                   response_text, parsed, changes_summary, fs, saved, exit_status,
                   gen_calls, resets, reset_failed, llm_failed, touched>>

\* lines 258-272
Succeed ==
    /\ pc = "decide"
    /\ test_success
    /\ success' = TRUE
    /\ saved' = Append(saved, SuccessRecord(attempt, parsed, test_output))
    /\ pc' = "after_loop"
    /\ UNCHANGED <<diffs, first_apply, llm>>
    /\ UNCHANGED <<max_retries, attempt, previous_attempt, user_message, response_text,
                   parsed, changes_summary, test_success, test_output, fs, exit_status,
                   log, gen_calls, resets, reset_failed, llm_failed, touched>>

\* lines 273-290 when the revert is run
FailAndRevert(git) ==
    /\ pc = "decide"
    /\ ~test_success
    /\ ShouldRevert(attempt, max_retries)
    /\ previous_attempt' = TestFeedback(test_output, changes_summary)
    /\ resets' = resets + 1
    /\ reset_failed' = (reset_failed \/ git # "ok")
    /\ LET r == RevertChanges(fs, git)
       IN  /\ fs' = r.fs
           /\ IF r.raised
              THEN Crash /\ UNCHANGED attempt
              ELSE LoopNext /\ UNCHANGED exit_status
    /\ UNCHANGED <<diffs, first_apply, llm>>
    /\ UNCHANGED <<max_retries, success, user_message, response_text, parsed,
                   changes_summary, test_success, test_output, saved, log, gen_calls,
                   llm_failed, touched>>

\* a last attempt that is reverted like the others
FailLastReverts ==
    /\ pc = "decide"
    /\ ~test_success
    /\ ~ShouldRevert(attempt, max_retries)
    /\ previous_attempt' = TestFeedback(test_output, changes_summary)
    /\ fs' = RevertChanges(fs, "ok").fs
    /\ LoopNext
    /\ UNCHANGED <<diffs, first_apply, llm>>
    /\ UNCHANGED <<max_retries, success, user_message, response_text, parsed,
                   changes_summary, test_success, test_output, saved, exit_status, log,
                   gen_calls, resets, reset_failed, llm_failed, touched>>

\* lines 273-284 on the last attempt: no revert
FailLast ==
    /\ pc = "decide"
    /\ ~test_success
    /\ ~ShouldRevert(attempt, max_retries)
    /\ previous_attempt' = TestFeedback(test_output, changes_summary)
    /\ LoopNext
    /\ UNCHANGED <<diffs, first_apply, llm>>
    /\ UNCHANGED <<max_retries, success, user_message, response_text, parsed,
                   changes_summary, test_success, test_output, fs, saved, exit_status, log,
                   gen_calls, resets, reset_failed, llm_failed, touched>>

\* a loop exit that writes the failure record whether or not an attempt passed
AfterLoopAlwaysSaves ==
    /\ pc = "after_loop"
    /\ saved' = Append(saved, FailureRecord(max_retries, previous_attempt))
    /\ exit_status' = IF success THEN "exit0" ELSE "exit1"
    /\ pc' = "exited"
    /\ UNCHANGED <<diffs, first_apply, llm>>
    /\ UNCHANGED <<max_retries, attempt, previous_attempt, success, user_message,
                   response_text, parsed, changes_summary, test_success, test_output, fs,
                   log, gen_calls, resets, reset_failed, llm_failed, touched>>

\* lines 292-307
AfterLoop ==
    /\ pc = "after_loop"
    /\ IF success
       THEN exit_status' = "exit0" /\ UNCHANGED saved
       ELSE /\ saved' = Append(saved, FailureRecord(max_retries, previous_attempt))
            /\ exit_status' = "exit1"
    /\ pc' = "exited"
    /\ UNCHANGED <<diffs, first_apply, llm>>
    /\ UNCHANGED <<max_retries, attempt, previous_attempt, success, user_message,
                   response_text, parsed, changes_summary, test_success, test_output, fs,
                   log, gen_calls, resets, reset_failed, llm_failed, touched>>

Next ==
    \/ \E text \in Responses : CallLLM(text)
    \/ CallLLMRaises
    \/ ParseResponse
    \/ ApplyChanges
    \/ \E proc \in TestOutcomes : RunTests(proc)
    \/ Succeed
    \/ \E git \in GitOutcomes : FailAndRevert(git)
    \/ FailLast
    \/ AfterLoop

Spec == Init /\ [][Next]_vars

\* the terminal states of the spec's state machine, read off what was persisted
Succeeded == \E i \in 1..Len(saved) : saved[i].success
Exhausted == \E i \in 1..Len(saved) : ~saved[i].success

(***************************************************************************)
(* The parser and the mutator on their own: any response text of up to     *)
(* MaxSections sections is parsed, and its edits are applied to the        *)
(* baseline workspace.                                                     *)
(***************************************************************************)
EditPaths == {p_a, p_new, p_up, p_abs}
InsidePaths == {p_a, p_new}
TaggedWords == {NoAction, "Create", "DELETE", "Rename"}
LooseWords == {NoAction, "delete", "Rename"}
DeleteWords == {"delete"}
\* the action words of the sections that name a directory
DirWords == {NoAction, "DELETE"}
Bodies == {<<"h", NL>>}
\* code blocks whose content begins with a blank line
BlankBodies == {<<NL, "h", NL>>}

JsonChanges ==
    { Change(p_a, "Create", <<"j">>), Change(p_new, "create", <<"j">>),
      Change(p_a, "Rename", <<"j">>), Entry({"action"}, p_a, "create", <<>>) }
JsonObjs ==
    {NoObj, JsonValue(TRUE, {"changes"}, "", <<>>), JsonValue(TRUE, {"explanation"}, "why", <<>>)}
    \cup { Obj("why", c) : c \in UNION { [1..n -> JsonChanges] : n \in 0..2 } }

Sections ==
    { Tagged(p, w, b) : p \in EditPaths, w \in TaggedWords, b \in Bodies }
    \cup { Tagged(p, NoAction, b) : p \in InsidePaths, b \in BlankBodies }
    \cup { Loose(p, w, b) : p \in InsidePaths, w \in LooseWords, b \in Bodies }
    \cup { Loose(p_new, NoAction, b) : b \in BlankBodies }
    \cup { DeleteOnly(p, w) : p \in EditPaths, w \in DeleteWords }
    \cup { Tagged(p_pkg, w, b) : w \in DirWords, b \in Bodies }
    \cup { Json(o) : o \in JsonObjs }
    \cup { Explanation("why"), Prose }

\* texts of three sections: a tagged section, a loose one and a delete-only
\* heading; an edit of a directory between two edits of files
LongTexts ==
    { <<Tagged(p, NoAction, b), Loose(q, NoAction, b), DeleteOnly(r, "delete")>> :
        p \in InsidePaths, q \in InsidePaths, r \in InsidePaths, b \in Bodies }
    \cup { <<Tagged(p, NoAction, b), Tagged(p_pkg, w, b), Tagged(q, NoAction, b)>> :
             p \in InsidePaths, q \in InsidePaths, w \in DirWords, b \in Bodies }

Texts == UNION { [1..n -> Sections] : n \in 0..MaxSections } \cup LongTexts

ParseInit ==
    /\ response_text \in Texts
    /\ pc = "p_parse"
    /\ max_retries = 1
    /\ attempt = 1
    /\ previous_attempt = None
    /\ success = FALSE
    /\ user_message = NoMessage
    /\ parsed = NoParse
    /\ changes_summary = <<>>
    /\ test_success = FALSE
    /\ test_output = NoOutput
    /\ fs = Baseline
    /\ saved = <<>>
    /\ exit_status = "running"
    /\ log = <<>>
    /\ gen_calls = 0
    /\ resets = 0
    /\ reset_failed = FALSE
    /\ llm_failed = FALSE
    /\ touched = {}
    /\ diffs = NoDiffs
    /\ first_apply = NoApply
    /\ llm = NoCall

\* parsed = parse_model_response(response_text)
ParseText ==
    /\ pc = "p_parse"
    /\ parsed' = parse_model_response(response_text)
    /\ pc' = "p_diff"
    /\ UNCHANGED <<diffs, first_apply, llm>>
    /\ UNCHANGED <<max_retries, attempt, previous_attempt, success, user_message,
                   response_text, changes_summary, test_success, test_output, fs, saved,
                   exit_status, log, gen_calls, resets, reset_failed, llm_failed, touched>>

\* generate_diff(parsed["changes"], repo_path), before apply_changes
BuildDiffs ==
    /\ pc = "p_diff"
    /\ diffs' = generate_diff(parsed.changes, fs)
    /\ pc' = "p_apply"
    /\ UNCHANGED <<max_retries, attempt, previous_attempt, success, user_message,
                   response_text, parsed, changes_summary, test_success, test_output, fs,
                   saved, exit_status, log, gen_calls, resets, reset_failed, llm_failed,
                   touched, first_apply, llm>>

\* changes_summary = apply_changes(parsed["changes"], repo_path)
ApplyParsed ==
    /\ pc = "p_apply"
    /\ LET r == apply_changes(parsed.changes, fs)
       IN  /\ fs' = r.fs
           /\ touched' = touched \cup r.touched
           /\ changes_summary' = IF r.raised THEN changes_summary ELSE r.summary
           /\ pc' = IF r.raised THEN "p_raised" ELSE "p_applied"
    /\ UNCHANGED <<diffs, first_apply, llm>>
    /\ UNCHANGED <<max_retries, attempt, previous_attempt, success, user_message,
                   response_text, parsed, test_success, test_output, saved, exit_status,
                   log, gen_calls, resets, reset_failed, llm_failed>>

\* apply_changes once more, with the same changes, on what the first left
ApplyAgain ==
    /\ pc = "p_applied"
    /\ first_apply' = Applied(TRUE, fs, changes_summary)
    /\ LET r == apply_changes(parsed.changes, fs)
       IN  /\ fs' = r.fs
           /\ touched' = touched \cup r.touched
           /\ changes_summary' = IF r.raised THEN changes_summary ELSE r.summary
           /\ pc' = IF r.raised THEN "p_raised" ELSE "p_reapplied"
    /\ UNCHANGED <<max_retries, attempt, previous_attempt, success, user_message,
                   response_text, parsed, test_success, test_output, saved, exit_status,
                   log, gen_calls, resets, reset_failed, llm_failed, diffs, llm>>

ParseNext == ParseText \/ BuildDiffs \/ ApplyParsed \/ ApplyAgain

SpecParse == ParseInit /\ [][ParseNext]_vars

(***************************************************************************)
(* One invocation of call_llm (scripts/run_hal9000.py, the same in         *)
(* scripts/execute_plan.py): each request to the provider returns a        *)
(* response or raises an exception with some message.                      *)
(***************************************************************************)
ErrorMessages ==
    {<<"rate_limit">>, <<"Error", "429">>, <<"Too Many Requests">>, <<"timeout">>,
     <<"Error", "500">>}

CallInit ==
    /\ llm \in { Call(m, 0, 0, <<>>, "calling", <<>>, <<>>) : m \in 1..MaxRateLimitRetries }
    /\ pc = "call_llm"
    /\ max_retries = 1
    /\ attempt = 1
    /\ previous_attempt = None
    /\ success = FALSE
    /\ user_message = NoMessage
    /\ response_text = <<>>
    /\ parsed = NoParse
    /\ changes_summary = <<>>
    /\ test_success = FALSE
    /\ test_output = NoOutput
    /\ fs = Baseline
    /\ saved = <<>>
    /\ exit_status = "running"
    /\ log = <<>>
    /\ gen_calls = 0
    /\ resets = 0
    /\ reset_failed = FALSE
    /\ llm_failed = FALSE
    /\ touched = {}
    /\ diffs = NoDiffs
    /\ first_apply = NoApply

CallUnchanged ==
    UNCHANGED <<max_retries, pc, attempt, previous_attempt, success, user_message,
                response_text, parsed, changes_summary, test_success, test_output, fs,
                saved, exit_status, log, gen_calls, resets, reset_failed, llm_failed,
                touched, diffs, first_apply>>

\* litellm.completion returns: the content is returned at once
ProviderResponds(text) ==
    /\ llm.status = "calling"
    /\ llm' = [llm EXCEPT !.requests = @ + 1, !.status = "returned", !.response = text]
    /\ CallUnchanged

\* litellm.completion raises: the except clause, and the raise after the loop
\* when this was the last pass
ProviderRaises(e) ==
    /\ llm.status = "calling"
    /\ IF IsRateLimit(e)
       THEN llm' = [llm EXCEPT !.requests = @ + 1,
                               !.waits = Append(@, WaitTime(llm.attempt)),
                               !.attempt = @ + 1,
                               !.status = IF llm.attempt + 1 < llm.max
                                          THEN "calling" ELSE "raised",
                               !.error = IF llm.attempt + 1 < llm.max
                                         THEN <<>> ELSE RateLimitExceeded]
       ELSE llm' = [llm EXCEPT !.requests = @ + 1, !.status = "raised", !.error = e]
    /\ CallUnchanged

CallNext ==
    \/ \E text \in Responses : ProviderResponds(text)
    \/ \E e \in ErrorMessages : ProviderRaises(e)

SpecCall == CallInit /\ [][CallNext]_vars

\* C8: every location the mutator creates, overwrites or deletes when it
\* applies the edits parsed from a text lies inside the workspace root.
C8_MutationsStayInsideRoot == \A l \in touched : InsideRoot(l)

\* C9: a parse result holds at most one edit per path.
C9_OneEditPerPath ==
    \A i, j \in 1..Len(parsed.changes) :
        parsed.changes[i].path = parsed.changes[j].path => i = j

(***************************************************************************)
(* Properties of the retry loop.                                           *)
(***************************************************************************)
NoChangesText == <<"Model did not provide any file changes">>

\* attempt i parsed its response and found no edits
NoEdits(i) == log[i].parsedDone /\ log[i].parseResult.changes = <<>>

\* attempt i ran the test command and it failed
FailedValidation(i) == log[i].validated /\ ~log[i].passed

\* the Workspace Mutator raised a filesystem error in attempt i
MutationError(i) ==
    log[i].applied /\ apply_changes(log[i].parseResult.changes, log[i].fsAtStart).raised

\* C1: when neither the text generation nor the workspace reset fails, the
\* loop makes at most max_retries generation calls and a run that has ended
\* has ended in exactly one of Succeeded and Exhausted.
C1_EndsSucceededOrExhausted ==
    (~llm_failed /\ ~reset_failed) =>
        /\ gen_calls <= max_retries
        /\ ~(Succeeded /\ Exhausted)
        /\ (pc = "exited" => (Succeeded \/ Exhausted))

\* C2: every attempt after the first starts from the baseline file tree.
C2_AttemptStartsFromBaseline ==
    (pc = "generate" /\ attempt > 1 /\ ~reset_failed) => Tree(fs) = Tree(Baseline)

\* C3: a filesystem error of the mutator in attempt i does not abort the run:
\* the attempt is consumed, attempt i+1 is started from the reverted workspace
\* when i < max_retries, and the run ends Exhausted when i = max_retries.
C3_MutationErrorIsRetried ==
    \A i \in 1..Len(log) :
        MutationError(i) =>
            /\ exit_status # "traceback"
            /\ (i < max_retries => (i < Len(log) \/ (pc = "generate" /\ attempt = i + 1)))
            /\ (i = max_retries /\ pc = "exited" => Exhausted)

\* the Success record is the one of the current attempt, whose validation passed
SuccessRecordOfCurrentAttempt ==
    Succeeded =>
        /\ Len(saved) = 1
        /\ attempt = Len(log)
        /\ log[attempt].validated /\ log[attempt].passed
        /\ saved[1].attempt = attempt
        /\ saved[1].changes = log[attempt].parseResult.changes
        /\ saved[1].explanation = log[attempt].parseResult.explanation
        /\ saved[1].test_output = log[attempt].validationOutput

\* C4: the run ends Succeeded only if the validation of the current attempt
\* passed; the Success record carries that attempt's index, edits and
\* rationale; and after it nothing is generated, applied, validated or reset.
C4_SuccessIsCurrentAttempt ==
    /\ []SuccessRecordOfCurrentAttempt
    /\ [][Succeeded => (log' = log /\ gen_calls' = gen_calls /\ resets' = resets
                        /\ fs' = fs /\ attempt' = attempt)]_vars

C4_Witness ==
    pc = "exited" /\ Succeeded /\ attempt = 2 /\ max_retries = 3 /\ resets = 1

\* the attempts before the last whose failed validation has been acted on
RevertedAttempts ==
    { i \in 1..Len(log) :
        /\ FailedValidation(i)
        /\ i < max_retries
        /\ ~(i = attempt /\ pc = "decide") }

C6_NoEditsAttempt ==
    \A i \in 1..Len(log) :
        NoEdits(i) =>
            /\ ~log[i].applied /\ ~log[i].validated
            /\ IF i < Len(log)
               THEN /\ log[i + 1].fsAtStart = log[i].fsAtStart
                    /\ log[i + 1].prompt.feedback.set
                    /\ log[i + 1].prompt.feedback.test_output.text = NoChangesText
               ELSE /\ fs = log[i].fsAtStart
                    /\ previous_attempt.set
                    /\ previous_attempt.test_output.text = NoChangesText
            /\ (i < max_retries => (i < Len(log) \/ (pc = "generate" /\ attempt = i + 1)))
            /\ (i = max_retries =>
                   /\ ~Succeeded
                   /\ pc \in {"after_loop", "exited"}
                   /\ (pc = "exited" => Exhausted))

C6_Witness ==
    /\ pc = "exited" /\ Exhausted /\ Len(log) = 3
    /\ NoEdits(1) /\ FailedValidation(2) /\ NoEdits(3)

\* C7: once the workspace reset has failed, the run is over with the failure
\* uncaught: no further attempt is made on the workspace that was not reset.
C7_ResetFailureEndsRun ==
    reset_failed => (pc = "exited" /\ exit_status = "traceback")

\* the feedback the spec's AttemptRecord i gives: its validation output and
\* its apply summary
RecordFeedback(i) ==
    Feedback(log[i].validationOutput, Summary("applied", log[i].applySummary, <<>>))

\* C10, as the spec states it: the first prompt carries no feedback; the
\* prompt of attempt i > 1 carries exactly the validation output and the
\* apply summary of attempt i-1.
C10_FeedbackIsPreviousRecord ==
    \A i \in 1..Len(log) :
        IF i = 1
        THEN ~log[i].prompt.feedback.set
        ELSE log[i].prompt.feedback = RecordFeedback(i - 1)

\* C10, amended: the first prompt carries no feedback; the prompt of attempt
\* i > 1 carries exactly the validation output and the apply summary of
\* attempt i-1, or, when attempt i-1 produced no edits, the no-changes
\* diagnostic and the head of attempt i-1's response text; it carries nothing
\* of an earlier attempt.
C10_FeedbackIsPreviousAttempt ==
    \A i \in 1..Len(log) :
        IF i = 1
        THEN ~log[i].prompt.feedback.set
        ELSE IF NoEdits(i - 1)
             THEN log[i].prompt.feedback =
                      Feedback(Output(NoChangesText, 0),
                               Summary("response_head", <<>>, log[i - 1].generatedText))
             ELSE /\ log[i].prompt.feedback = RecordFeedback(i - 1)
                  /\ log[i].prompt.feedback.test_output.run = i - 1

C10_Witness ==
    /\ Len(log) = 3
    /\ FailedValidation(1) /\ NoEdits(2)
    /\ log[1].applySummary # <<>>

\* the diagnostic of attempt i: its validation output, or the no-changes text
\* when it produced no edits
Diagnostic(i) == IF NoEdits(i) THEN Output(NoChangesText, 0) ELSE log[i].validationOutput

\* every one of the max_retries attempts ran and failed, by its validation or
\* by producing no edits
AllAttemptsFailed ==
    /\ Len(log) = max_retries
    /\ \A i \in 1..max_retries : NoEdits(i) \/ FailedValidation(i)

\* C11: when all max_retries attempts have failed, the run ends with one
\* Exhausted record, and the diagnostic it carries is the validation output
\* (or the no-changes text) of attempt max_retries, not of an earlier one.
C11_ExhaustedCarriesFinalDiagnostic ==
    (pc = "exited" /\ AllAttemptsFailed) =>
        /\ Exhausted /\ ~Succeeded
        /\ Len(saved) = 1
        /\ saved[1].test_output = Diagnostic(max_retries)
        /\ (FailedValidation(max_retries) => saved[1].test_output.run = max_retries)

C11_Witness ==
    /\ pc = "exited" /\ AllAttemptsFailed
    /\ max_retries = 3
    /\ NoEdits(1) /\ FailedValidation(2) /\ FailedValidation(3)
    /\ log[2].validationOutput.text # log[3].validationOutput.text

\* C12: once call_llm has raised in attempt i, the run is over with a
\* traceback: no attempt after i is started, no further generation call is
\* made, and no record, Success or Exhausted, is saved.
C12_GenerationErrorEndsRun ==
    llm_failed =>
        /\ pc = "exited" /\ exit_status = "traceback"
        /\ Len(log) = attempt /\ gen_calls = attempt
        /\ log[attempt].generatedText = <<>> /\ ~log[attempt].parsedDone
        /\ saved = <<>>

C12_Witness == llm_failed /\ attempt = 2 /\ max_retries = 3 /\ FailedValidation(1)

\* C13: applying the same parse result a second time leaves the file contents
\* the first apply produced, and reports Modified or Deleted, never Created,
\* for every path the first apply reported as Created.
C13_ReapplyIsIdempotent ==
    pc = "p_reapplied" =>
        /\ fs = first_apply.fs
        /\ \A i \in 1..Len(first_apply.summary) :
               first_apply.summary[i].outcome = "Created" =>
                   \A j \in 1..Len(changes_summary) :
                       changes_summary[j].path = first_apply.summary[i].path =>
                           changes_summary[j].outcome \in {"Modified", "Deleted"}

\* a structured block that is well formed: JSON of an object with an
\* explanation and a changes list
WellFormedBlock(s) ==
    s.kind = "json" /\ s.obj.valid /\ {"explanation", "changes"} \subseteq s.obj.keys

JsonBlocks(text) == { i \in 1..Len(text) : text[i].kind = "json" }

\* the index of the first ```json block of a text that has one
FirstJsonBlock(text) == CHOOSE i \in JsonBlocks(text) : \A j \in JsonBlocks(text) : i <= j

MarkdownSections(text) ==
    { i \in 1..Len(text) : text[i].kind \in {"tagged", "loose", "delete"} }

\* C14 as stated: whenever the text contains a well-formed structured block,
\* parse returns the changes and the explanation of such a block.
C14_AnyWellFormedBlockIsReturned ==
    (pc # "p_parse" /\ \E i \in JsonBlocks(response_text) : WellFormedBlock(response_text[i])) =>
        \E i \in JsonBlocks(response_text) :
            /\ WellFormedBlock(response_text[i])
            /\ parsed.changes = response_text[i].obj.changes
            /\ parsed.explanation = response_text[i].obj.explanation

\* C14, amended: when the first ```json block of the text is well formed, parse
\* returns exactly its changes and its explanation, also when the changes are
\* empty and whatever tagged, loose or delete-only sections the text has.
C14_FirstBlockIsReturned ==
    (pc # "p_parse" /\ JsonBlocks(response_text) # {}
        /\ WellFormedBlock(response_text[FirstJsonBlock(response_text)])) =>
        /\ parsed.changes = response_text[FirstJsonBlock(response_text)].obj.changes
        /\ parsed.explanation = response_text[FirstJsonBlock(response_text)].obj.explanation
        /\ parsed.keys = {"explanation", "changes"}

C14_Witness ==
    /\ pc = "p_diff"
    /\ JsonBlocks(response_text) # {} /\ MarkdownSections(response_text) # {}
    /\ WellFormedBlock(response_text[FirstJsonBlock(response_text)])
    /\ response_text[FirstJsonBlock(response_text)].obj.changes = <<>>
    /\ parsed.changes = <<>> /\ parsed.explanation = "why"

\* the content C a code block holds: the block's lines up to the newline that
\* precedes the closing fence
CodeOf(s) == SubSeq(s.body, 1, Len(s.body) - 1)

NoTrailingNewline(c) == c = <<>> \/ c[Len(c)] # NL

\* C15: a text that is one file section (tagged or loose, with a writing
\* action) whose code block holds C, C without a trailing newline, is parsed
\* and applied to a file that is C followed by one newline, also when C
\* begins with blank lines; stripping that newline gives C back.
C15_WriteRoundTrip ==
    (pc = "p_applied" /\ Len(response_text) = 1
        /\ response_text[1].kind \in {"tagged", "loose"}
        /\ Len(parsed.changes) = 1
        /\ parsed.changes[1].action \in {"create", "modify"}
        /\ NoTrailingNewline(CodeOf(response_text[1]))) =>
        /\ fs[FilePath(response_text[1].path)] = File(CodeOf(response_text[1]) \o <<NL>>)
        /\ StripNewline(fs[FilePath(response_text[1].path)].data) = CodeOf(response_text[1])

\* a text that is one file section, or one structured block with one edit
\* that has all its keys
OneEditText(text) ==
    /\ Len(text) = 1
    /\ \/ text[1].kind \in {"tagged", "loose"}
       \/ /\ WellFormedBlock(text[1])
          /\ Len(text[1].obj.changes) = 1
          /\ text[1].obj.changes[1].keys = ChangeKeys

\* the action token as it is written in such a text
TokenOf(text) ==
    IF text[1].kind = "json" THEN text[1].obj.changes[1].action ELSE text[1].action

\* the outcomes the mutator reports for an action
OutcomesOf(action) ==
    IF action = "delete" THEN {"Deleted", "SkippedMissing"} ELSE {"Created", "Modified"}

\* C16: an edit whose action token is a case variant of create, modify or
\* delete, in a structured block, a tagged section or a loose section, is
\* applied as that action and is not reported as UnknownAction.
C16_ActionTokensCaseInsensitive ==
    (pc = "p_applied" /\ OneEditText(response_text)
        /\ Lower(TokenOf(response_text)) \in {"create", "modify", "delete"}) =>
        /\ Len(changes_summary) = 1
        /\ changes_summary[1].outcome # "UnknownAction"
        /\ changes_summary[1].outcome \in OutcomesOf(Lower(TokenOf(response_text)))

\* no section of the text is matched by a format: prose, a stray explanation
\* heading, ```json blocks that are malformed
MatchesNoFormat(text) ==
    \A i \in 1..Len(text) :
        \/ text[i].kind \in {"prose", "explanation"}
        \/ text[i].kind = "json" /\ ~text[i].obj.valid

\* C17: for every text, parse returns a result that has an explanation and a
\* sequence of edits, each with a path, an action and a content; a text
\* matching no format gives no edits.
C17_ParseReturnsParseResult ==
    pc # "p_parse" =>
        /\ {"explanation", "changes"} \subseteq parsed.keys
        /\ \A i \in 1..Len(parsed.changes) : parsed.changes[i].keys = ChangeKeys
        /\ (MatchesNoFormat(response_text) => parsed.changes = <<>>)

Chunks(t) == { t[i] : i \in 1..Len(t) } \ {NL}

\* all the subprocess wrote is in the output text
ContainsWritten(out, proc) == (Chunks(proc.stdout) \cup Chunks(proc.stderr)) \subseteq Chunks(out.text)

TimedOutMarker == "Test command timed out after 5 minutes"

\* C18: run_tests passes on exit code 0 and fails on a nonzero exit code; a
\* run that exceeds the timeout fails with the timed-out marker, and its
\* output still holds what the command had written before the timeout.
C18_ValidateClassifies ==
    \A i \in 1..Len(log) :
        log[i].validated =>
            /\ (log[i].proc.res = "exit0" => log[i].passed)
            /\ (log[i].proc.res = "exit1" => ~log[i].passed)
            /\ (log[i].proc.res = "timeout" =>
                    /\ ~log[i].passed
                    /\ TimedOutMarker \in Chunks(log[i].validationOutput.text)
                    /\ ContainsWritten(log[i].validationOutput, log[i].proc))

\* the content of the file a path names, the empty string when there is none
CurrentContent(f, path) ==
    IF f[FilePath(path)].kind = "file" THEN f[FilePath(path)].data ELSE <<>>

\* C19: generate_diff, run on the workspace before it is mutated, returns for
\* every edit an entry for its path whose old is the current content of the
\* target file (empty when the file is absent) and whose new is the edit's
\* content (empty for a delete).
C19_DiffsCoverEveryEdit ==
    (pc = "p_apply" /\ ~diffs.raised) =>
        \A i \in 1..Len(parsed.changes) :
            parsed.changes[i].keys = ChangeKeys =>
                /\ parsed.changes[i].path \in DOMAIN diffs.diffs
                /\ diffs.diffs[parsed.changes[i].path].old =
                       CurrentContent(fs, parsed.changes[i].path)
                /\ diffs.diffs[parsed.changes[i].path].new =
                       IF parsed.changes[i].action = "delete"
                       THEN <<>> ELSE parsed.changes[i].content

\* the text is one edit whose action word is not create, modify or delete in
\* any letter case
UnknownActionText(text) ==
    /\ OneEditText(text)
    /\ TokenOf(text) # NoAction
    /\ Lower(TokenOf(text)) \notin {"create", "modify", "delete"}

\* C20 as stated: an action word that is not create, modify or delete is on
\* the edit exactly as the text has it, and the edit is kept.
C20_UnknownActionKeptVerbatim ==
    (pc # "p_parse" /\ UnknownActionText(response_text)) =>
        /\ Len(parsed.changes) = 1
        /\ parsed.changes[1].path = response_text[1].path
        /\ parsed.changes[1].action = TokenOf(response_text)

\* C20, amended: such an action word is kept on the edit in lower case when
\* it comes from a tagged or a loose section, and as it is written when it
\* comes from a structured block; the edit is kept, with its path.
C20_UnknownActionKeptLowercased ==
    (pc # "p_parse" /\ UnknownActionText(response_text)) =>
        /\ Len(parsed.changes) = 1
        /\ IF response_text[1].kind = "json"
           THEN parsed.changes[1] = response_text[1].obj.changes[1]
           ELSE /\ parsed.changes[1].path = response_text[1].path
                /\ parsed.changes[1].action = Lower(TokenOf(response_text))

C20_Witness ==
    /\ pc = "p_diff" /\ UnknownActionText(response_text)
    /\ response_text[1].kind = "loose"
    /\ TokenOf(response_text) = "Rename"
    /\ parsed.changes[1].action = "rename"

\* the sections of each format in a text
SectionsOf(text, kinds) == { i \in 1..Len(text) : text[i].kind \in kinds }

\* the entries of a parse result for a path
EntriesFor(p, path) == { k \in 1..Len(p.changes) : p.changes[k].path = path }

\* the first ```json block decodes to an object with changes: the markdown
\* formats are not tried
JsonTaken(text) ==
    /\ JsonBlocks(text) # {}
    /\ text[FirstJsonBlock(text)].obj.valid
    /\ "changes" \in text[FirstJsonBlock(text)].obj.keys

\* the content-bearing sections the markdown parser reads: the tagged ones,
\* or the loose ones when the text has no tagged section
ReadSections(text) ==
    IF SectionsOf(text, {"tagged"}) # {}
    THEN SectionsOf(text, {"tagged"}) ELSE SectionsOf(text, {"loose"})

\* C21 as stated: a path that has both a content-bearing section (tagged or
\* loose) and a delete-only heading in the text has exactly one entry in the
\* edits, the content-bearing one.
C21_ContentBearingEntryOnly ==
    pc # "p_parse" =>
        \A c \in SectionsOf(response_text, {"tagged", "loose"}) :
            \A d \in SectionsOf(response_text, {"delete"}) :
                response_text[c].path = response_text[d].path =>
                    /\ Cardinality(EntriesFor(parsed, response_text[d].path)) = 1
                    /\ \A k \in EntriesFor(parsed, response_text[d].path) :
                           parsed.changes[k].content # <<>>

\* C21, amended: when the markdown formats are parsed, a delete-only heading
\* adds no entry for a path that has a content-bearing section the parser
\* reads: the path's entries are those sections' and no other, whichever
\* comes first; for a path without one the heading gives the one delete entry.
C21_HeadingAddsNoEntry ==
    (pc # "p_parse" /\ ~JsonTaken(response_text)) =>
        \A d \in SectionsOf(response_text, {"delete"}) :
            LET path == response_text[d].path
                read == { c \in ReadSections(response_text) : response_text[c].path = path }
            IN  IF read # {}
                THEN /\ Cardinality(EntriesFor(parsed, path)) = Cardinality(read)
                     /\ \A k \in EntriesFor(parsed, path) : parsed.changes[k].content # <<>>
                ELSE \E k \in 1..Len(parsed.changes) :
                        /\ EntriesFor(parsed, path) = {k}
                        /\ parsed.changes[k] = Change(path, "delete", <<>>)

C21_Witness ==
    /\ pc = "p_diff" /\ Len(response_text) = 2
    /\ response_text[1].kind = "delete" /\ response_text[2].kind = "loose"
    /\ response_text[1].path = response_text[2].path
    /\ Len(parsed.changes) = 1 /\ parsed.changes[1].action = "modify"

\* a text in the tagged-section format: File headings, each with its code
\* block, of distinct paths
TaggedFormat(text) ==
    /\ text # <<>>
    /\ \A i \in 1..Len(text) : text[i].kind = "tagged"
    /\ \A i, j \in 1..Len(text) : i # j => text[i].path # text[j].path

\* C22: a text of N tagged sections with distinct paths parses to N edits,
\* the i-th with the path of the i-th heading.
C22_TaggedSectionsInOrder ==
    (pc # "p_parse" /\ TaggedFormat(response_text)) =>
        /\ Len(parsed.changes) = Len(response_text)
        /\ \A i \in 1..Len(response_text) : parsed.changes[i].path = response_text[i].path

C22_Witness ==
    /\ pc = "p_diff" /\ TaggedFormat(response_text)
    /\ Len(response_text) = 3
    /\ response_text[2].action = "DELETE"
    /\ Len(parsed.changes) = 3 /\ parsed.changes[2].action = "delete"

RECURSIVE AfterEdits(_, _, _)
\* the filesystem once the first n edits have been carried out on f, one by one
AfterEdits(f, changes, n) ==
    IF n = 0 THEN f
    ELSE ApplyChange(AfterEdits(f, changes, n - 1), changes[n]).fs

\* edit j raises when it is carried out after the edits before it
EditRaises(f, changes, j) == ApplyChange(AfterEdits(f, changes, j - 1), changes[j]).raised

\* the first apply of the parsed edits, on the baseline, has ended
FirstApplyEnded == pc \in {"p_applied", "p_raised"} /\ ~first_apply.done

\* C23: when edit j of an apply raises, the workspace is left as edits 1..j-1
\* made it (nothing is rolled back, nothing after j is carried out) and the
\* caller gets the exception and no summary; an apply returns its summary only
\* when no edit raises.
C23_FailFastNoRollback ==
    FirstApplyEnded =>
        IF pc = "p_raised"
        THEN /\ changes_summary = <<>>
             /\ \E j \in 1..Len(parsed.changes) :
                    /\ EditRaises(Baseline, parsed.changes, j)
                    /\ \A k \in 1..(j - 1) : ~EditRaises(Baseline, parsed.changes, k)
                    /\ fs = AfterEdits(Baseline, parsed.changes, j - 1)
        ELSE /\ \A j \in 1..Len(parsed.changes) : ~EditRaises(Baseline, parsed.changes, j)
             /\ Len(changes_summary) = Len(parsed.changes)

C23_Witness ==
    /\ FirstApplyEnded /\ pc = "p_raised"
    /\ Len(parsed.changes) = 3
    /\ parsed.changes[1].path = p_a /\ parsed.changes[2].path = p_pkg
    /\ parsed.changes[3].path = p_new
    /\ fs[FilePath(p_a)] = File(<<"h", NL>>)
    /\ fs[FilePath(p_new)] = Absent

\* the edits of a parse result that have a path and one of the given actions
EditsWith(p, actions) ==
    { i \in 1..Len(p.changes) : "path" \in p.changes[i].keys /\ ActionOf(p.changes[i]) \in actions }

\* C24: a create or modify edit leaves its target file holding the edit's
\* content and one newline, whatever it held, with every parent directory
\* made; it is reported Created when the path did not exist just before the
\* write and Modified otherwise, whichever of the two words the edit has.
C24_WriteSemantics ==
    (FirstApplyEnded /\ pc = "p_applied") =>
        /\ fs = AfterEdits(Baseline, parsed.changes, Len(parsed.changes))
        /\ \A i \in EditsWith(parsed, {"create", "modify"}) :
               LET before == AfterEdits(Baseline, parsed.changes, i - 1)
                   after == AfterEdits(Baseline, parsed.changes, i)
                   file_path == FilePath(parsed.changes[i].path)
               IN  /\ after[file_path] = File(ContentOf(parsed.changes[i]) \o <<NL>>)
                   /\ \A a \in ProperAncestors(file_path) : after[a] = Dir
                   /\ \A l \in Locs \ (ProperAncestors(file_path) \cup {file_path}) :
                          after[l] = before[l]
                   /\ changes_summary[i] =
                          Line(IF before[file_path] = Absent THEN "Created" ELSE "Modified",
                               parsed.changes[i].path)

C24_Witness ==
    /\ FirstApplyEnded /\ pc = "p_applied"
    /\ Len(parsed.changes) = 2
    /\ parsed.changes[1] = Change(p_a, "create", <<"h">>)
    /\ parsed.changes[2] = Change(p_new, "modify", <<"h">>)
    /\ changes_summary = <<Line("Modified", p_a), Line("Created", p_new)>>
    /\ fs[<<"repo", "sub">>] = Dir
    /\ fs[FilePath(p_a)] = File(<<"h", NL>>)

\* C25: a delete edit whose target exists removes it and is reported Deleted;
\* one whose target does not exist is reported SkippedMissing and changes
\* nothing; neither raises.
C25_DeleteSemantics ==
    FirstApplyEnded =>
        \A i \in EditsWith(parsed, {"delete"}) :
            (\A k \in 1..(i - 1) : ~EditRaises(Baseline, parsed.changes, k)) =>
                LET before == AfterEdits(Baseline, parsed.changes, i - 1)
                    r == ApplyChange(before, parsed.changes[i])
                    file_path == FilePath(parsed.changes[i].path)
                IN  /\ ~r.raised
                    /\ IF Exists(before, file_path)
                       THEN /\ r.fs[file_path] = Absent
                            /\ r.line = Line("Deleted", parsed.changes[i].path)
                       ELSE /\ r.fs = before
                            /\ r.line = Line("SkippedMissing", parsed.changes[i].path)

KnownActions == {"create", "modify", "delete"}

\* the edits apply_changes has a branch for
KnownEdits(changes) ==
    SelectSeq(changes, LAMBDA c : "path" \notin c.keys \/ ActionOf(c) \in KnownActions)

\* the edits whose action is none of the three
UnknownEdits(p) ==
    { i \in 1..Len(p.changes) :
        "path" \in p.changes[i].keys /\ ActionOf(p.changes[i]) \notin KnownActions }

\* C26: an edit whose action is not create, modify or delete is reported as
\* UnknownAction and changes no file or directory, and the edits after it are
\* carried out: the workspace is as if the edit had not been in the list.
C26_UnknownActionFrame ==
    (FirstApplyEnded /\ pc = "p_applied") =>
        /\ Len(changes_summary) = Len(parsed.changes)
        /\ fs = AfterEdits(Baseline, KnownEdits(parsed.changes), Len(KnownEdits(parsed.changes)))
        /\ \A i \in UnknownEdits(parsed) :
               /\ changes_summary[i] = Line("UnknownAction", parsed.changes[i].path)
               /\ AfterEdits(Baseline, parsed.changes, i) =
                      AfterEdits(Baseline, parsed.changes, i - 1)

C26_Witness ==
    /\ FirstApplyEnded /\ pc = "p_applied"
    /\ parsed.changes = <<Change(p_a, "rename", <<"h">>), Change(p_new, "modify", <<"h">>)>>
    /\ changes_summary = <<Line("UnknownAction", p_a), Line("Created", p_new)>>
    /\ fs[FilePath(p_a)] = Baseline[FilePath(p_a)]
    /\ fs[FilePath(p_new)] = File(<<"h", NL>>)

\* C27: a run that ends in Succeeded or Exhausted has written its result
\* record exactly once, when the loop was left: nothing is written while
\* attempts are still being made, and never both a Success and a failure
\* record.
C27_ResultPersistedOnce ==
    /\ Len(saved) <= 1
    /\ ~(Succeeded /\ Exhausted)
    /\ (pc \in {"generate", "parse", "apply", "test", "decide"} => saved = <<>>)
    /\ (pc = "exited" /\ exit_status \in {"exit0", "exit1"} =>
            /\ Len(saved) = 1
            /\ saved[1].success = (exit_status = "exit0")
            /\ saved[1].success = log[Len(log)].passed)

C27_Witness ==
    /\ pc = "exited" /\ exit_status = "exit0"
    /\ Len(log) = 3 /\ FailedValidation(1) /\ NoEdits(2) /\ log[3].passed
    /\ Len(saved) = 1 /\ saved[1].attempt = 3

\* what has happened in each attempt has happened in the order generate,
\* parse, apply, validate, and an attempt is followed by another only when it
\* has been decided
AttemptsInOrder ==
    \A i \in 1..Len(log) :
        /\ log[i].index = i
        /\ (log[i].parsedDone => log[i].generatedText # <<>>)
        /\ (log[i].applied => log[i].parsedDone /\ ~NoEdits(i))
        /\ (log[i].validated => log[i].applied /\ ~MutationError(i))
        /\ (i < Len(log) => NoEdits(i) \/ FailedValidation(i))
        /\ (i < Len(log) /\ FailedValidation(i) => resets >= Cardinality({ j \in 1..i : FailedValidation(j) }))

\* each step is the next one of the current attempt: a generation starts a new
\* attempt from pc "generate", the parse follows it, the apply the parse, the
\* validation the apply, and a reset is made only at the decision that follows
\* a failed validation
StepsInOrder ==
    /\ (Len(log') # Len(log) =>
            /\ pc = "generate" /\ Len(log') = Len(log) + 1 /\ attempt = Len(log) + 1
            /\ resets = Cardinality({ j \in 1..Len(log) : FailedValidation(j) }))
    /\ \A i \in 1..Len(log) :
           /\ (log'[i].parsedDone /\ ~log[i].parsedDone => pc = "parse" /\ i = attempt)
           /\ (log'[i].applied /\ ~log[i].applied => pc = "apply" /\ i = attempt)
           /\ (log'[i].validated /\ ~log[i].validated => pc = "test" /\ i = attempt)
    /\ (resets' # resets =>
            /\ resets' = resets + 1
            /\ pc = "decide" /\ attempt = Len(log) /\ FailedValidation(attempt)
            /\ log' = log)

\* C28: the loop is sequential: in each attempt generate, parse, apply and
\* validate happen in that order, the tests never run in an attempt whose
\* apply has not completed, a reset is made only directly after a failed
\* validation, and attempt i+1 is generated only after the decision of attempt
\* i and its reset, if any.
C28_StrictlySequential == []AttemptsInOrder /\ [][StepsInOrder]_vars

C28_Witness ==
    /\ Len(log) = 3 /\ pc = "decide"
    /\ FailedValidation(1) /\ FailedValidation(2) /\ log[3].validated
    /\ resets = 2

\* the failed validations among the first n attempts
FailedAmong(n) == { j \in 1..n : j <= Len(log) /\ FailedValidation(j) }

\* the workspace as the final attempt left it
FinalAttemptApplied ==
    fs = apply_changes(log[max_retries].parseResult.changes, log[max_retries].fsAtStart).fs

\* C30 as stated: when the run ends Exhausted with the final validation
\* failed, no reset follows it and the workspace holds the final attempt's
\* edits; the workspace equals the result of the last reset (the workspace the
\* final attempt started from) only when the final attempt produced no edits.
C30_EqualsResetOnlyWithoutEdits ==
    (pc = "exited" /\ Exhausted) =>
        /\ Len(log) = max_retries
        /\ (FailedValidation(max_retries) =>
               /\ resets = Cardinality(FailedAmong(max_retries - 1))
               /\ FinalAttemptApplied)
        /\ (resets > 0 /\ fs = log[max_retries].fsAtStart => NoEdits(max_retries))

\* C30, amended: when the run ends Exhausted with the final validation failed,
\* no reset follows it and the workspace is the one the final attempt started
\* from with that attempt's edits applied; when the final attempt produced no
\* edits the workspace is the one it started from.
C30_ExhaustedKeepsFinalEdits ==
    (pc = "exited" /\ Exhausted) =>
        /\ Len(log) = max_retries
        /\ (FailedValidation(max_retries) =>
               /\ resets = Cardinality(FailedAmong(max_retries - 1))
               /\ ~NoEdits(max_retries)
               /\ FinalAttemptApplied)
        /\ (NoEdits(max_retries) => fs = log[max_retries].fsAtStart)

C30_Witness ==
    /\ pc = "exited" /\ Exhausted /\ max_retries = 2
    /\ FailedValidation(1) /\ FailedValidation(2)
    /\ resets = 1 /\ ~reset_failed
    /\ fs # log[2].fsAtStart
    /\ fs[FilePath(p_new)] = File(<<"h", NL>>)


\* C29: one invocation of call_llm sends at most max_rate_limit_retries
\* requests; the first response is returned at once; request n (0-based)
\* hitting a rate limit is followed by a wait of 30 * 2^n seconds; any other
\* error is raised again at once, without a wait; and when the last permitted
\* request hits a rate limit too, an exception is raised and no response returned.
C29_BoundedBackoff ==
    /\ llm.requests <= llm.max
    /\ \A i \in 1..Len(llm.waits) : llm.waits[i] = 30 * 2 ^ (i - 1)
    /\ llm.status = "calling" =>
           llm.requests = Len(llm.waits) /\ llm.requests < llm.max
    /\ llm.status = "returned" =>
           llm.requests = Len(llm.waits) + 1 /\ llm.error = <<>>
    /\ (llm.status = "raised" /\ llm.error # RateLimitExceeded) =>
           /\ llm.requests = Len(llm.waits) + 1
           /\ ~IsRateLimit(llm.error)
           /\ llm.response = <<>>
    /\ (llm.status = "raised" /\ llm.error = RateLimitExceeded) =>
           /\ llm.requests = llm.max
           /\ Len(llm.waits) = llm.max
           /\ llm.response = <<>>

C29_Witness ==
    /\ llm.status = "returned"
    /\ llm.waits = <<30, 60, 120>>
    /\ llm.requests = 4
    /\ llm.max = 4

============================================================================
